---- MODULE Spec2Model ----
(***************************************************************************)
(* A model of src/pacman.py: the maze (GameController), the pathfinder     *)
(* (Pathfinder over tcod's AStar), the ghosts and the hero (Movers, Ghost, *)
(* Hero) and the session state with its timers and its event loop          *)
(* (RenderGame).                                                           *)
(*                                                                         *)
(* The program runs one fixed 28x31 maze with 32-pixel cells.  The model   *)
(* runs the same code on small mazes with small cells.  Every maze keeps   *)
(* what the program's maze has and the code relies on: a wall at (0,0),    *)
(* the hero's spawn cell (1,1) open, and walls around the cells except in  *)
(* the row left open at both edges (the wraparound row).  The cell size    *)
(* and the sizes of the collectibles are reduced together: a collectible   *)
(* still sits at its cell's centre, inside the cell, and the hero's box    *)
(* still reaches two neighbouring collectibles at once when it is mid-way  *)
(* between them, as with 32, 4 and 6 in the source.                        *)
(*                                                                         *)
(* Specifications:                                                         *)
(*   Spec      the whole program on a two-cell corridor with one ghost,    *)
(*             with every key and every event;                             *)
(*   SpecHero  the hero alone in a maze with a wraparound row and a 2x2    *)
(*             open block, with every key, before the first timer event;   *)
(*   SpecTwo   the hero and two ghosts next to its spawn cell, with every  *)
(*             key, before the first timer event;                          *)
(*   SpecPower the hero alone in a three-cell corridor with more_powerups  *)
(*             powerups and the expiry timer's events;                     *)
(*   SpecBlock the hero in a 2x2 open block and one ghost that moves       *)
(*             between its spawn cell beside the block and the nearest     *)
(*             cell of the block, with every key and the expiry timer;     *)
(*   SpecDir   the direction derivation of one ghost alone, on every       *)
(*             position and target of 0..MaxCoord squared;                 *)
(*   SpecPath  the pathfinder alone, on every grid of PathW x PathH cells. *)
(***************************************************************************)
EXTENDS Integers, Sequences, FiniteSets, TLC

\* ------------------------------------------------------------- bounds
\* Cell size in screen units (unified_size; 32 in the source).
unified_size == 3
\* Size of a cookie's and of a powerup's box (4 and 6 in the source).
cookie_size == 2
powerup_size == 2
\* Number of powerups placed at start (4 in the source).
num_powerups == 1
\* Number of powerups in SpecPower, where the hero meets a second powerup.
more_powerups == 2
\* The hero is followed at most this far above and below the screen.
MaxEscape == 1
\* The event queue holds at most this many posted events.
MaxQueue == 2
\* SpecPath enumerates every grid of PathW x PathH cells.
PathW == 3
PathH == 2
\* Largest coordinate of a ghost and of its target in SpecDir.
MaxCoord == 3

\* ------------------------------------------------- enums (lines 8-33)
Directions == {"Nothing", "Left", "Up", "Down", "Right"}
GhostMoves == {"Chase", "Scatter"}
PointCookie == 10
PointPowerup == 50
PointGhost == 400

\* ------------------------------------------------------ the maze data
\* GameController.ascii_maze: X = wall, P = pac-man, G = ghost.
MazeCorridor ==
  << <<"X", "X", "X", "X">>,
     <<"X", "P", "G", "X">>,
     <<"X", "X", "X", "X">> >>

MazeWrap ==
  << <<"X", "X", "X", "X">>,
     <<"X", "P", " ", "X">>,
     <<" ", " ", " ", " ">>,
     <<"X", "X", "X", "X">> >>

MazeTwo ==
  << <<"X", "X", "X", "X">>,
     <<"X", "P", "G", "X">>,
     <<"X", "G", "X", "X">>,
     <<"X", "X", "X", "X">> >>

MazePower ==
  << <<"X", "X", "X", "X", "X">>,
     <<"X", "P", " ", " ", "X">>,
     <<"X", "X", "X", "X", "X">> >>

MazeBlock ==
  << <<"X", "X", "X", "X", "X">>,
     <<"X", "P", " ", "G", "X">>,
     <<"X", " ", " ", "X", "X">>,
     <<"X", "X", "X", "X", "X">> >>

\* RenderGame._modes: (scatter seconds, chase seconds) per phase.
modes == << <<7, 20>>, <<7, 20>>, <<5, 20>>, <<5, 999999>> >>

\* int(a / b) of Python for b > 0: truncation toward zero.
TruncDiv(a, b) == IF a >= 0 THEN a \div b ELSE -((-a) \div b)

screen_to_maze(input_coords) ==
  <<TruncDiv(input_coords[1], unified_size), TruncDiv(input_coords[2], unified_size)>>

maze_to_screen(input_coords) ==
  <<input_coords[1] * unified_size, input_coords[2] * unified_size>>

\* pygame.Rect.colliderect: the boxes share interior points.
colliderect(ax, ay, aw, ah, bx, by, bw, bh) ==
  /\ ax < bx + bw
  /\ bx < ax + aw
  /\ ay < by + bh
  /\ by < ay + ah

\* ------------------------------------------------------ GameController
MazeW(m) == Len(m[1])
MazeH(m) == Len(m)

\* Cells <<x, y>> in the order convert_maze_to_np visits them (row by row).
AllCells(m) ==
  [k \in 1..(MazeW(m) * MazeH(m)) |-> <<(k - 1) % MazeW(m), (k - 1) \div MazeW(m)>>]

CharAt(m, c) == m[c[2] + 1][c[1] + 1]

Range(s) == {s[k] : k \in DOMAIN s}

\* GameController.__init__ on ascii maze m, with the powerup cells drawn
\* (random.choice): numpy_maze[row][column] is 0 for a wall and 1 for free
\* space; size is (columns, rows).
convert_maze_to_np(m, drawn) ==
  [numpy_maze |-> [r \in 1..MazeH(m) |->
                     [c \in 1..MazeW(m) |-> IF m[r][c] = "X" THEN 0 ELSE 1]],
   ghost_spawns |-> SelectSeq(AllCells(m), LAMBDA c : CharAt(m, c) = "G"),
   cookie_spaces |-> SelectSeq(AllCells(m), LAMBDA c : CharAt(m, c) # "X"),
   reachable_spaces |-> SelectSeq(AllCells(m), LAMBDA c : CharAt(m, c) # "X"),
   powerup_spaces |-> drawn,
   size |-> <<MazeW(m), MazeH(m)>>]

\* __main__: a WallObject for every 0 of numpy_maze, at column x, row y.
wall_objects(numpy) ==
  {c \in {<<x, y>> : x \in 0..(Len(numpy[1]) - 1), y \in 0..(Len(numpy) - 1)} :
     numpy[c[2] + 1][c[1] + 1] = 0}

\* ---------------------------------------------------------- Pathfinder
\* tcod.path.AStar(cost, diagonal=0) over cost[i][j], i the first index:
\* a shortest sequence of 4-directional steps through cells of non-zero
\* cost, the origin left out and the destination last; empty when origin
\* and destination are equal, when either is outside the array or when the
\* destination cannot be reached.  Which shortest path is returned is left
\* to the library: every one of them is a possible result.
InArray(cost, n) ==
  /\ n[1] >= 0 /\ n[1] < Len(cost)
  /\ n[2] >= 0 /\ n[2] < Len(cost[1])

Walkable(cost, n) == InArray(cost, n) /\ cost[n[1] + 1][n[2] + 1] # 0

Adjacent(n) ==
  {<<n[1] - 1, n[2]>>, <<n[1] + 1, n[2]>>, <<n[1], n[2] - 1>>, <<n[1], n[2] + 1>>}

Steps(cost, n) == {s \in Adjacent(n) : Walkable(cost, s)}

\* The nodes reached from the origin in exactly d steps and in no fewer, as
\* pairs <<node, d>>, for the nodes of `frontier` and beyond.
RECURSIVE Layers(_, _, _, _)
Layers(cost, frontier, seen, d) ==
  IF frontier = {} THEN {}
  ELSE LET next == {p \in UNION {Steps(cost, n) : n \in frontier} : p \notin seen}
       IN  {<<n, d>> : n \in frontier} \cup Layers(cost, next, seen \cup next, d + 1)

\* The shortest paths that end in node t, d steps from the origin.
RECURSIVE PathsTo(_, _, _)
PathsTo(dist, t, d) ==
  IF d = 0 THEN {<< >>}
  ELSE UNION {{Append(p, t) : p \in PathsTo(dist, n, d - 1)} :
                n \in {a \in Adjacent(t) : <<a, d - 1>> \in dist}}

AStar_get_path(cost, ox, oy, dx, dy) ==
  LET o == <<ox, oy>>
      t == <<dx, dy>>
  IN  IF o = t \/ ~InArray(cost, o) \/ ~InArray(cost, t)
      THEN {<< >>}
      ELSE LET dist == Layers(cost, {o}, {o}, 0)
           IN  IF \E e \in dist : e[1] = t
               THEN PathsTo(dist, t, (CHOOSE e \in dist : e[1] = t)[2])
               ELSE {<< >>}

\* Fault: get_path returns the A* result as it is, the pairs not swapped.
Pathfinder_get_path_unswapped(input_array, from_x, from_y, to_x, to_y) ==
  AStar_get_path(input_array, from_x, from_y, to_x, to_y)

\* Pathfinder.get_path: the A* result with each pair's members swapped.
Pathfinder_get_path(input_array, from_x, from_y, to_x, to_y) ==
  {[k \in 1..Len(res) |-> <<res[k][2], res[k][1]>>] :
     res \in AStar_get_path(input_array, from_x, from_y, to_x, to_y)}


\* ------------------------------------------------------------- state
VARIABLES
  game_controller,         \* the GameController's fields (fixed after start)
  walls,                   \* RenderGame._walls, by cell (fixed after start)
  pc,                      \* where the program is: "start", "ghost", "hero",
                           \* "events" (RenderGame.tick), "done", "crashed";
                           \* "path" in SpecPath
  gi,                      \* the ghost whose tick comes next in the loop
  hero,                    \* the Hero object's fields
  hero_ref,                \* RenderGame._hero is not None
  ghosts,                  \* RenderGame._ghosts: the Ghost objects' fields
  game_objects,            \* RenderGame._game_objects (walls left out)
  cookies,                 \* RenderGame._cookies, by cell
  lives, score, won_game,
  special_ability_active, curr_mode, current_phase,
  mode_timer,              \* interval of the mode-switch timer (ms, 0: off)
  ability_timer,           \* interval of the ability-end timer (ms, 0: off)
  event_queue,             \* pygame's event queue
  done_running,
  path_call                \* SpecPath: a call of the pathfinder and its result

fixed == <<game_controller, walls, path_call>>

vars == <<game_controller, walls, pc, gi, hero, hero_ref, ghosts, game_objects,
          cookies, lives, score, won_game, special_ability_active, curr_mode,
          current_phase, mode_timer, ability_timer, event_queue, done_running,
          path_call>>

None == << >>

\* RenderGame(size[0] * unified_size, size[1] * unified_size)
width == game_controller.size[1] * unified_size
height == game_controller.size[2] * unified_size
NumGhosts == Len(game_controller.ghost_spawns)

HeroObj == <<"hero">>
CookieObj(c) == <<"cookie", c>>
PowerupObj(i) == <<"powerup", i>>
GhostObj(i) == <<"ghost", i>>

\* Cookie / Powerup at the cell's corner plus unified_size / 2; pygame.Rect
\* keeps the integer part.
cookie_shape(c) ==
  <<maze_to_screen(c)[1] + unified_size \div 2,
    maze_to_screen(c)[2] + unified_size \div 2, cookie_size>>

powerup_shape(i) ==
  <<maze_to_screen(game_controller.powerup_spaces[i])[1] + unified_size \div 2,
    maze_to_screen(game_controller.powerup_spaces[i])[2] + unified_size \div 2,
    powerup_size>>

\* The hero's or a ghost's box (size unified_size) against a box <<x, y, size>>.
collides_with(pos, shape) ==
  colliderect(pos[1], pos[2], unified_size, unified_size,
              shape[1], shape[2], shape[3], shape[3])

\* ------------------------------------------------------------- Movers
wall_collision(input_position) ==
  \E wall \in walls :
     collides_with(input_position,
                   <<wall[1] * unified_size, wall[2] * unified_size, unified_size>>)

\* <<collides, desired_pos>>
check_collision_in_direction(o, input_direction) ==
  IF input_direction = "Nothing" THEN <<FALSE, <<0, 0>>>>
  ELSE LET desired_pos ==
             CASE input_direction = "Up"    -> <<o.x, o.y - 1>>
               [] input_direction = "Down"  -> <<o.x, o.y + 1>>
               [] input_direction = "Left"  -> <<o.x - 1, o.y>>
               [] input_direction = "Right" -> <<o.x + 1, o.y>>
       IN  <<wall_collision(desired_pos), desired_pos>>

set_direction(o, input_direction) ==
  [o EXCEPT !.current_direction = input_direction,
            !.direction_buffer = input_direction]

\* Fault: pop() in place of pop(0), the queue read from its end.
get_next_location_last(o) ==
  IF Len(o.location_queue) = 0 THEN <<o, None>>
  ELSE <<[o EXCEPT !.location_queue = SubSeq(o.location_queue, 1, Len(o.location_queue) - 1)],
         o.location_queue[Len(o.location_queue)]>>

\* <<object after the pop, popped location or None>>
get_next_location(o) ==
  IF Len(o.location_queue) = 0 THEN <<o, None>>
  ELSE <<[o EXCEPT !.location_queue = Tail(o.location_queue)], Head(o.location_queue)>>

\* --------------------------------------------------------------- Hero
Hero_automatic_move(h, input_direction) ==
  LET collision_result == check_collision_in_direction(h, input_direction)
  IN  IF ~collision_result[1]
      THEN [h EXCEPT !.last_working_direction = h.current_direction,
                     !.x = collision_result[2][1],
                     !.y = collision_result[2][2]]
      ELSE [h EXCEPT !.current_direction = h.last_working_direction]

\* Fault: Hero.tick without the return to last_non_colliding_position.
Hero_move_unchecked(h) ==
  LET h1 == IF h.x < 0 THEN [h EXCEPT !.x = width] ELSE h
      h2 == IF h1.x > width THEN [h1 EXCEPT !.x = 0] ELSE h1
  IN  IF check_collision_in_direction(h2, h2.direction_buffer)[1]
      THEN Hero_automatic_move(h2, h2.current_direction)
      ELSE [Hero_automatic_move(h2, h2.direction_buffer)
              EXCEPT !.current_direction = h2.direction_buffer]

\* Hero.tick up to the calls of handle_cookies and handle_ghosts.
Hero_move(h) ==
  LET h1 == IF h.x < 0 THEN [h EXCEPT !.x = width] ELSE h
      h2 == IF h1.x > width THEN [h1 EXCEPT !.x = 0] ELSE h1
      last_non_colliding_position == <<h2.x, h2.y>>
      h3 == IF check_collision_in_direction(h2, h2.direction_buffer)[1]
            THEN Hero_automatic_move(h2, h2.current_direction)
            ELSE [Hero_automatic_move(h2, h2.direction_buffer)
                    EXCEPT !.current_direction = h2.direction_buffer]
  IN  IF wall_collision(<<h3.x, h3.y>>)
      THEN [h3 EXCEPT !.x = last_non_colliding_position[1],
                      !.y = last_non_colliding_position[2]]
      ELSE h3

\* ---------------------------------------- RenderGame: score, modes, end
\* Fault: = in place of += in add_score.
add_score_assigned(st, input_score) == [st EXCEPT !.score = input_score]

add_score(st, input_score) == [st EXCEPT !.score = st.score + input_score]

\* Fault: activate_special_ability without start_end_ability_timeout().
activate_special_ability_unarmed(st) ==
  [st EXCEPT !.special_ability_active = TRUE,
             !.curr_mode = "Scatter"]

\* start_end_ability_timeout arms the ability-end timer with 15 s.
activate_special_ability(st) ==
  [st EXCEPT !.special_ability_active = TRUE,
             !.curr_mode = "Scatter",
             !.ability_timer = 15000]

end_game(st) ==
  [st EXCEPT !.game_objects = st.game_objects \ {HeroObj},
             !.hero_ref = FALSE]

\* self._hero.set_position raises AttributeError when _hero is None: the
\* decrement has happened, nothing after it does.
kill_pacman(st) ==
  LET st1 == [st EXCEPT !.lives = st.lives - 1]
  IN  IF ~st1.hero_ref THEN [st1 EXCEPT !.crashed = TRUE]
      ELSE LET st2 == [st1 EXCEPT !.hero = set_direction(
                                      [st1.hero EXCEPT !.x = unified_size,
                                                       !.y = unified_size],
                                      "Nothing")]
           IN  IF st2.lives = 0 THEN end_game(st2) ELSE st2

\* self._modes[self._current_phase] raises IndexError past the table's end.
handle_mode_switch(st) ==
  IF st.current_phase + 1 > Len(modes) THEN [st EXCEPT !.crashed = TRUE]
  ELSE LET curr_phase_timings == modes[st.current_phase + 1]
           scatter_timing == curr_phase_timings[1]
           chase_timing == curr_phase_timings[2]
           st1 == IF st.curr_mode = "Chase"
                  THEN [st EXCEPT !.current_phase = st.current_phase + 1,
                                  !.curr_mode = "Scatter"]
                  ELSE [st EXCEPT !.curr_mode = "Chase"]
           used_timing == IF st1.curr_mode = "Scatter" THEN scatter_timing
                          ELSE chase_timing
       IN  [st1 EXCEPT !.mode_timer = used_timing * 1000]

\* ------------------------------------------------ Hero: the collisions
\* Index of the last element of the list that is in hits (0: none).
LastIndex(list, hits) ==
  IF \E k \in DOMAIN list : list[k] \in hits
  THEN CHOOSE k \in DOMAIN list :
         list[k] \in hits /\ \A j \in DOMAIN list : list[j] \in hits => j <= k
  ELSE 0

RemoveAt(list, k) ==
  [j \in 1..(Len(list) - 1) |-> IF j < k THEN list[j] ELSE list[j + 1]]

\* Fault: the cookie loop without its test of cookie in game_objects.
cookie_hit_unchecked(st, cookie) ==
  collides_with(<<st.hero.x, st.hero.y>>, cookie_shape(cookie))

\* The test of the cookie loop: collides and cookie in game_objects.
cookie_hit(st, cookie) ==
  /\ collides_with(<<st.hero.x, st.hero.y>>, cookie_shape(cookie))
  /\ CookieObj(cookie) \in st.game_objects

handle_cookies(st) ==
  LET pos == <<st.hero.x, st.hero.y>>
      hits == {cookie \in Range(st.cookies) : cookie_hit(st, cookie)}
      cookie_to_remove == LastIndex(st.cookies, hits)
      st1 == [st EXCEPT !.game_objects = st.game_objects \ {CookieObj(c) : c \in hits},
                        !.score = st.score + PointCookie * Cardinality(hits),
                        !.cookies = IF cookie_to_remove = 0 THEN st.cookies
                                    ELSE RemoveAt(st.cookies, cookie_to_remove)]
      st2 == IF Len(st1.cookies) = 0 THEN [st1 EXCEPT !.won_game = TRUE] ELSE st1
      taken == {i \in DOMAIN game_controller.powerup_spaces :
                  /\ collides_with(pos, powerup_shape(i))
                  /\ PowerupObj(i) \in st2.game_objects}
  IN  IF taken # {} /\ ~st2.special_ability_active
      THEN LET i == CHOOSE i \in taken : \A j \in taken : i <= j
           IN  activate_special_ability(
                 add_score([st2 EXCEPT !.game_objects = st2.game_objects \ {PowerupObj(i)}],
                           PointPowerup))
      ELSE st2

\* Fault: the eaten ghost is scored and left in the game objects.
ghost_collision_kept(i, st) ==
  IF st.special_ability_active THEN add_score(st, PointGhost)
  ELSE IF ~st.won_game THEN kill_pacman(st) ELSE st

\* What handle_ghosts does with ghost i once it collides and is in play.
ghost_collision(i, st) ==
  IF st.special_ability_active
  THEN add_score([st EXCEPT !.game_objects = st.game_objects \ {GhostObj(i)}],
                 PointGhost)
  ELSE IF ~st.won_game THEN kill_pacman(st) ELSE st

\* The loop of handle_ghosts from ghost i on; pos is the hero's position
\* when handle_ghosts was entered (collision_rect is built once).
RECURSIVE handle_ghosts_from(_, _, _)
handle_ghosts_from(i, pos, st) ==
  IF i > NumGhosts \/ st.crashed THEN st
  ELSE LET ghost == ghosts[i]
           collides == collides_with(pos, <<ghost.x, ghost.y, unified_size>>)
           st1 == IF collides /\ GhostObj(i) \in st.game_objects
                  THEN ghost_collision(i, st)
                  ELSE st
       IN  handle_ghosts_from(i + 1, pos, st1)

handle_ghosts(st) == handle_ghosts_from(1, <<st.hero.x, st.hero.y>>, st)

\* The session as the handlers see it.
Session ==
  [hero |-> hero, hero_ref |-> hero_ref, game_objects |-> game_objects,
   cookies |-> cookies, lives |-> lives, score |-> score, won_game |-> won_game,
   special_ability_active |-> special_ability_active, curr_mode |-> curr_mode,
   current_phase |-> current_phase, mode_timer |-> mode_timer,
   ability_timer |-> ability_timer, done_running |-> done_running,
   crashed |-> FALSE]

Hero_tick(st) == handle_ghosts(handle_cookies([st EXCEPT !.hero = Hero_move(st.hero)]))

\* -------------------------------------------------------------- Ghost
get_hero_position == IF ~hero_ref THEN <<0, 0>> ELSE <<hero.x, hero.y>>

\* Fault: the cells of the path queued as they are, without maze_to_screen.
ScreenPaths_cells(from, to) ==
  Pathfinder_get_path(game_controller.numpy_maze, from[2], from[1], to[2], to[1])

\* self.p.get_path(from[1], from[0], to[1], to[0]) and maze_to_screen on
\* each of its cells, as both callers do: every path it may return.
ScreenPaths(from, to) ==
  {[k \in 1..Len(path) |-> maze_to_screen(path[k])] :
     path \in Pathfinder_get_path(game_controller.numpy_maze,
                                  from[2], from[1], to[2], to[1])}

request_path_to_player(g) ==
  LET player_position == screen_to_maze(get_hero_position)
      curr_maze_coords == screen_to_maze(<<g.x, g.y>>)
  IN  ScreenPaths(curr_maze_coords, player_position)

request_new_random_path(g) ==
  LET current_maze_coord == screen_to_maze(<<g.x, g.y>>)
  IN  UNION {ScreenPaths(current_maze_coord, random_space) :
               random_space \in Range(game_controller.reachable_spaces)}

set_new_path(g, input_path) ==
  LET g1 == [g EXCEPT !.location_queue = g.location_queue \o input_path]
      r == get_next_location(g1)
  IN  [r[1] EXCEPT !.next_target = r[2]]

\* Fault: the mode test without "and not is_special_ability_active()".
Requested_ignoring_ability(g) ==
  {set_new_path(g, path) :
     path \in IF curr_mode = "Chase"
              THEN request_path_to_player(g)
              ELSE request_new_random_path(g)}

\* The ghost after a path request, one per path the request may return.
Requested(g) ==
  {set_new_path(g, path) :
     path \in IF curr_mode = "Chase" /\ ~special_ability_active
              THEN request_path_to_player(g)
              ELSE request_new_random_path(g)}

\* Fault: after a path request the direction held so far is returned.
calculate_direction_kept(g) ==
  IF g.next_target = None THEN {<<g1, g.current_direction>> : g1 \in Requested(g)}
  ELSE LET x_diff == g.next_target[1] - g.x
           y_diff == g.next_target[2] - g.y
       IN  IF x_diff = 0 THEN {<<g, IF y_diff > 0 THEN "Down" ELSE "Up">>}
           ELSE IF y_diff = 0 THEN {<<g, IF x_diff < 0 THEN "Left" ELSE "Right">>}
           ELSE {<<g1, g.current_direction>> : g1 \in Requested(g)}

\* Fault: the equal-y test made before the equal-x test.
calculate_direction_y_first(g) ==
  IF g.next_target = None THEN {<<g1, "Nothing">> : g1 \in Requested(g)}
  ELSE LET x_diff == g.next_target[1] - g.x
           y_diff == g.next_target[2] - g.y
       IN  IF y_diff = 0 THEN {<<g, IF x_diff < 0 THEN "Left" ELSE "Right">>}
           ELSE IF x_diff = 0 THEN {<<g, IF y_diff > 0 THEN "Down" ELSE "Up">>}
           ELSE {<<g1, "Nothing">> : g1 \in Requested(g)}

\* Pairs <<ghost, direction returned>>.
calculate_direction_to_next_target(g) ==
  IF g.next_target = None THEN {<<g1, "Nothing">> : g1 \in Requested(g)}
  ELSE LET x_diff == g.next_target[1] - g.x
           y_diff == g.next_target[2] - g.y
       IN  IF x_diff = 0 THEN {<<g, IF y_diff > 0 THEN "Down" ELSE "Up">>}
           ELSE IF y_diff = 0 THEN {<<g, IF x_diff < 0 THEN "Left" ELSE "Right">>}
           ELSE {<<g1, "Nothing">> : g1 \in Requested(g)}

\* Fault: a reached target is dropped without taking the next waypoint, so
\* a path is requested while waypoints are still queued.
reached_target_dropped(g) ==
  LET g1 == IF <<g.x, g.y>> = g.next_target THEN [g EXCEPT !.next_target = None]
            ELSE g
  IN  {[d[1] EXCEPT !.current_direction = d[2]] :
         d \in calculate_direction_to_next_target(g1)}

reached_target(g) ==
  LET r == get_next_location(g)
      g1 == IF <<g.x, g.y>> = g.next_target THEN [r[1] EXCEPT !.next_target = r[2]]
            ELSE g
  IN  {[d[1] EXCEPT !.current_direction = d[2]] :
         d \in calculate_direction_to_next_target(g1)}

Ghost_automatic_move(g, input_direction) ==
  CASE input_direction = "Up"    -> [g EXCEPT !.y = g.y - 1]
    [] input_direction = "Down"  -> [g EXCEPT !.y = g.y + 1]
    [] input_direction = "Left"  -> [g EXCEPT !.x = g.x - 1]
    [] input_direction = "Right" -> [g EXCEPT !.x = g.x + 1]
    [] OTHER -> g

\* Movers.tick for a ghost: the ghosts it may be afterwards.
Ghost_tick(g) == {Ghost_automatic_move(g1, g1.current_direction) : g1 \in reached_target(g)}

\* ------------------------------------------------ RenderGame._handle_events
\* Fault: the expiry also puts the mode back to Chase.
special_ability_end_to_chase(st) ==
  [st EXCEPT !.special_ability_active = FALSE, !.curr_mode = "Chase"]

\* The branch of the special-ability-end event.
special_ability_end(st) == [st EXCEPT !.special_ability_active = FALSE]

\* The for loop over the polled events, from the k-th on.
RECURSIVE handle_polled(_, _, _)
handle_polled(events, k, st) ==
  IF k > Len(events) \/ st.crashed THEN st
  ELSE LET event == events[k]
       IN  CASE event = "QUIT" ->
                  handle_polled(events, k + 1, [st EXCEPT !.done_running = TRUE])
             [] event = "MODE_SWITCH" ->
                  handle_polled(events, k + 1, handle_mode_switch(st))
             [] event = "ABILITY_END" ->
                  handle_polled(events, k + 1, special_ability_end(st))
             [] event = "PAKUPAKU" ->
                  IF ~st.hero_ref THEN st   \* break
                  ELSE handle_polled(events, k + 1, st)

Keys == {"K_UP", "K_LEFT", "K_DOWN", "K_RIGHT"}

handle_keys(st, pressed) ==
  IF ~st.hero_ref THEN st
  ELSE IF "K_UP" \in pressed THEN [st EXCEPT !.hero = set_direction(st.hero, "Up")]
  ELSE IF "K_LEFT" \in pressed THEN [st EXCEPT !.hero = set_direction(st.hero, "Left")]
  ELSE IF "K_DOWN" \in pressed THEN [st EXCEPT !.hero = set_direction(st.hero, "Down")]
  ELSE IF "K_RIGHT" \in pressed THEN [st EXCEPT !.hero = set_direction(st.hero, "Right")]
  ELSE st

handle_events(st, events, pressed) ==
  LET st1 == handle_polled(events, 1, st)
  IN  IF st1.crashed THEN st1 ELSE handle_keys(st1, pressed)

\* ------------------------------------------------------------ actions
\* The session's variables take the values of record st.
Store(st) ==
  /\ hero' = st.hero
  /\ hero_ref' = st.hero_ref
  /\ game_objects' = st.game_objects
  /\ cookies' = st.cookies
  /\ lives' = st.lives
  /\ score' = st.score
  /\ won_game' = st.won_game
  /\ special_ability_active' = st.special_ability_active
  /\ curr_mode' = st.curr_mode
  /\ current_phase' = st.current_phase
  /\ mode_timer' = st.mode_timer
  /\ ability_timer' = st.ability_timer
  /\ done_running' = st.done_running

FirstTurn == IF NumGhosts > 0 THEN "ghost" ELSE "hero"

\* __main__ on ascii maze m with n powerups, up to the loop of
\* RenderGame.tick.
InitWith(m, n) ==
  /\ \E drawn \in [1..n -> {c \in Range(AllCells(m)) : CharAt(m, c) # "X"}] :
       game_controller = convert_maze_to_np(m, drawn)
  /\ walls = wall_objects(game_controller.numpy_maze)
  /\ pc = "start"
  /\ gi = 1
  /\ hero = [x |-> unified_size, y |-> unified_size,
             current_direction |-> "Nothing", direction_buffer |-> "Nothing",
             last_working_direction |-> "Nothing"]
  /\ hero_ref = TRUE
  /\ ghosts = [i \in 1..Len(game_controller.ghost_spawns) |->
                 [x |-> maze_to_screen(game_controller.ghost_spawns[i])[1],
                  y |-> maze_to_screen(game_controller.ghost_spawns[i])[2],
                  current_direction |-> "Nothing",
                  location_queue |-> << >>, next_target |-> None]]
  /\ cookies = game_controller.cookie_spaces
  /\ game_objects = {CookieObj(c) : c \in Range(game_controller.cookie_spaces)}
                      \cup {PowerupObj(i) : i \in 1..n}
                      \cup {GhostObj(i) : i \in 1..Len(game_controller.ghost_spawns)}
                      \cup {HeroObj}
  /\ lives = 3
  /\ score = 0
  /\ won_game = FALSE
  /\ special_ability_active = FALSE
  /\ curr_mode = "Chase"
  /\ current_phase = 0
  /\ mode_timer = 0
  /\ ability_timer = 0
  /\ event_queue = << >>
  /\ done_running = FALSE
  /\ path_call = None

InitGame(m) == InitWith(m, num_powerups)

\* RenderGame.tick before its loop: handle_mode_switch().
Start ==
  /\ pc = "start"
  /\ Store(handle_mode_switch(Session))
  /\ pc' = FirstTurn
  /\ UNCHANGED <<gi, ghosts, event_queue, fixed>>

\* game_object.tick() for the next ghost of the list.
GhostTick ==
  /\ pc = "ghost"
  /\ IF GhostObj(gi) \in game_objects
     THEN \E g \in Ghost_tick(ghosts[gi]) : ghosts' = [ghosts EXCEPT ![gi] = g]
     ELSE UNCHANGED ghosts
  /\ IF gi < NumGhosts THEN gi' = gi + 1 /\ pc' = pc
     ELSE gi' = 1 /\ pc' = "hero"
  /\ UNCHANGED <<hero, hero_ref, game_objects, cookies, lives, score,
                 won_game, special_ability_active, curr_mode, current_phase,
                 mode_timer, ability_timer, event_queue, done_running, fixed>>

InView(st) ==
  /\ st.hero.y >= -MaxEscape
  /\ st.hero.y <= height + MaxEscape

\* game_object.tick() for the hero, the last object of the list.
HeroTick ==
  /\ pc = "hero"
  /\ HeroObj \in game_objects
  /\ LET st == Hero_tick(Session)
     IN  /\ InView(st)
         /\ Store(st)
         /\ pc' = IF st.crashed THEN "crashed" ELSE "events"
  /\ UNCHANGED <<gi, ghosts, event_queue, fixed>>

\* The loop body once the hero has left the list.
NoHeroTick ==
  /\ pc = "hero"
  /\ HeroObj \notin game_objects
  /\ pc' = "events"
  /\ UNCHANGED <<gi, hero, hero_ref, ghosts, game_objects, cookies,
                 lives, score, won_game, special_ability_active, curr_mode,
                 current_phase, mode_timer, ability_timer, event_queue,
                 done_running, fixed>>

\* The timers and the window post events while the loop runs.  An event
\* posted during the objects' ticks stays queued until the poll, so only
\* the ability-end event, whose timer the hero's tick may re-arm, is posted
\* before the hero's tick as well as after it.
Posts(event) ==
  CASE event = "QUIT" -> pc = "events"
    [] event = "PAKUPAKU" -> pc = "events"
    [] event = "MODE_SWITCH" -> pc = "events" /\ mode_timer > 0
    [] event = "ABILITY_END" -> pc \in {"hero", "events"} /\ ability_timer > 0

PostEvent ==
  /\ Len(event_queue) < MaxQueue
  /\ \E event \in {"QUIT", "MODE_SWITCH", "ABILITY_END", "PAKUPAKU"} :
       /\ Posts(event)
       /\ event_queue' = Append(event_queue, event)
  /\ UNCHANGED <<pc, gi, hero, hero_ref, ghosts, game_objects, cookies,
                 lives, score, won_game, special_ability_active, curr_mode,
                 current_phase, mode_timer, ability_timer, done_running, fixed>>

\* The expiry timer alone posts its event.
PostExpiry ==
  /\ Len(event_queue) < MaxQueue
  /\ Posts("ABILITY_END")
  /\ event_queue' = Append(event_queue, "ABILITY_END")
  /\ UNCHANGED <<pc, gi, hero, hero_ref, ghosts, game_objects, cookies,
                 lives, score, won_game, special_ability_active, curr_mode,
                 current_phase, mode_timer, ability_timer, done_running, fixed>>

\* RenderGame._handle_events on the polled events and the keys held.
HandleEvents ==
  /\ pc = "events"
  /\ \E pressed \in SUBSET Keys :
       LET st == handle_events(Session, event_queue, pressed)
       IN  /\ Store(st)
           /\ pc' = IF st.crashed THEN "crashed"
                    ELSE IF st.done_running THEN "done" ELSE FirstTurn
  /\ event_queue' = << >>
  /\ UNCHANGED <<gi, ghosts, fixed>>

\* ------------------------------------------------------ specifications
Next == Start \/ GhostTick \/ HeroTick \/ NoHeroTick \/ PostEvent \/ HandleEvents

Spec == InitGame(MazeCorridor) /\ [][Next]_vars

\* No ghost: the ghosts' ticks and the hero's death do not occur.
NextHero == Start \/ HeroTick \/ HandleEvents

SpecHero == InitGame(MazeWrap) /\ [][NextHero]_vars

NextTwo == Start \/ GhostTick \/ HeroTick \/ NoHeroTick \/ HandleEvents

SpecTwo == InitGame(MazeTwo) /\ [][NextTwo]_vars

\* No ghost, more powerups, and of the events the expiry timer's only.
NextPower == Start \/ HeroTick \/ PostExpiry \/ HandleEvents

SpecPower == InitWith(MazePower, more_powerups) /\ [][NextPower]_vars

\* The cells of MazeBlock that random.choice draws for the ghost: its spawn
\* cell and the cell of the block nearest to it.
Haunt == {<<3, 1>>, <<2, 2>>}

\* The waypoints ahead of a ghost, its target first.
Route(g) == (IF g.next_target = None THEN << >> ELSE <<g.next_target>>) \o g.location_queue

\* The ghost's tick when the cell drawn is one of these.
GhostBeside ==
  /\ GhostTick
  /\ \A i \in 1..NumGhosts :
       \/ Route(ghosts'[i]) = << >>
       \/ Route(ghosts'[i])[Len(Route(ghosts'[i]))] \in {maze_to_screen(c) : c \in Haunt}

\* The expiry timer fires once between two polls, after the hero's tick.
ExpiryOnce == PostExpiry /\ pc = "events" /\ event_queue = << >>

\* A ghost beside an open block, where the hero's box reaches two cookies
\* in one tick, and of the events the expiry timer's only.
NextBlock ==
  Start \/ GhostBeside \/ HeroTick \/ NoHeroTick \/ ExpiryOnce \/ HandleEvents

\* Of the cells random.choice may draw for the powerup, the hero's.
InitBlock ==
  /\ InitGame(MazeBlock)
  /\ game_controller.powerup_spaces = <<<<1, 1>>>>

SpecBlock == InitBlock /\ [][NextBlock]_vars

\* The pathfinder alone: a call as request_path_to_player and
\* request_new_random_path make it, between two cells of a grid.
Grids == [1..PathH -> [1..PathW -> {"X", " "}]]

InitPath ==
  /\ \E m \in Grids : game_controller = convert_maze_to_np(m, << >>)
  /\ walls = wall_objects(game_controller.numpy_maze)
  /\ \E from \in (0..(PathW - 1)) \X (0..(PathH - 1)),
        to \in (0..(PathW - 1)) \X (0..(PathH - 1)) :
       path_call = [from |-> from, to |-> to, done |-> FALSE, path |-> << >>]
  /\ pc = "path"
  /\ gi = 1
  /\ hero = [x |-> unified_size, y |-> unified_size,
             current_direction |-> "Nothing", direction_buffer |-> "Nothing",
             last_working_direction |-> "Nothing"]
  /\ hero_ref = TRUE
  /\ ghosts = << >>
  /\ cookies = << >>
  /\ game_objects = {}
  /\ lives = 3
  /\ score = 0
  /\ won_game = FALSE
  /\ special_ability_active = FALSE
  /\ curr_mode = "Chase"
  /\ current_phase = 0
  /\ mode_timer = 0
  /\ ability_timer = 0
  /\ event_queue = << >>
  /\ done_running = FALSE

GetPath ==
  /\ pc = "path"
  /\ ~path_call.done
  /\ \E path \in Pathfinder_get_path(game_controller.numpy_maze,
                                     path_call.from[2], path_call.from[1],
                                     path_call.to[2], path_call.to[1]) :
       path_call' = [path_call EXCEPT !.done = TRUE, !.path = path]
  /\ UNCHANGED <<game_controller, walls, pc, gi, hero, hero_ref, ghosts,
                 game_objects, cookies, lives, score, won_game,
                 special_ability_active, curr_mode, current_phase, mode_timer,
                 ability_timer, event_queue, done_running>>

SpecPath == InitPath /\ [][GetPath]_vars

\* The direction derivation alone: one ghost of MazeCorridor on any
\* position of 0..MaxCoord squared, with no target or any target there.
InitDir ==
  /\ game_controller = convert_maze_to_np(MazeCorridor, << >>)
  /\ walls = wall_objects(game_controller.numpy_maze)
  /\ path_call = None
  /\ pc = "derive"
  /\ gi = 1
  /\ hero = [x |-> unified_size, y |-> unified_size,
             current_direction |-> "Nothing", direction_buffer |-> "Nothing",
             last_working_direction |-> "Nothing"]
  /\ hero_ref = TRUE
  /\ \E x \in 0..MaxCoord, y \in 0..MaxCoord,
        target \in {None} \cup ((0..MaxCoord) \X (0..MaxCoord)) :
       ghosts = <<[x |-> x, y |-> y, current_direction |-> "Nothing",
                   location_queue |-> << >>, next_target |-> target]>>
  /\ cookies = << >>
  /\ game_objects = {GhostObj(1), HeroObj}
  /\ lives = 3
  /\ score = 0
  /\ won_game = FALSE
  /\ special_ability_active = FALSE
  /\ curr_mode = "Chase"
  /\ current_phase = 0
  /\ mode_timer = 0
  /\ ability_timer = 0
  /\ event_queue = << >>
  /\ done_running = FALSE

\* self.current_direction = self.calculate_direction_to_next_target()
Derive ==
  /\ pc = "derive"
  /\ \E d \in calculate_direction_to_next_target(ghosts[1]) :
       ghosts' = <<[d[1] EXCEPT !.current_direction = d[2]]>>
  /\ pc' = "derived"
  /\ UNCHANGED <<gi, hero, hero_ref, game_objects, cookies, lives, score,
                 won_game, special_ability_active, curr_mode, current_phase,
                 mode_timer, ability_timer, event_queue, done_running, fixed>>

SpecDir == InitDir /\ [][Derive]_vars

\* ---------------------------------------------------------- properties
\* Steps of the loop, as actions.
HeroStep == pc = "hero" /\ pc' # "hero" /\ HeroObj \in game_objects
GhostStep == pc = "ghost" /\ (pc' = "hero" \/ gi' # gi) /\ GhostObj(gi) \in game_objects
EventsStep == pc = "events" /\ pc' # "events"

\* The session when the hero's tick enters handle_ghosts.
Moved == handle_cookies([Session EXCEPT !.hero = Hero_move(hero)])

\* The ghosts in play whose box the hero's box overlaps in handle_ghosts.
Overlapping ==
  {i \in 1..NumGhosts :
     /\ GhostObj(i) \in game_objects
     /\ collides_with(<<Moved.hero.x, Moved.hero.y>>,
                      <<ghosts[i].x, ghosts[i].y, unified_size>>)}

InPlayCookies == {c \in Range(game_controller.cookie_spaces) : CookieObj(c) \in game_objects}
EatenCookies == {c \in Range(game_controller.cookie_spaces) : CookieObj(c) \notin game_objects}
EatenPowerups ==
  {i \in DOMAIN game_controller.powerup_spaces : PowerupObj(i) \notin game_objects}
EatenGhosts == {i \in 1..NumGhosts : GhostObj(i) \notin game_objects}

Abs(n) == IF n < 0 THEN -n ELSE n
Manhattan(a, b) == Abs(a[1] - b[1]) + Abs(a[2] - b[2])

\* C1: after every completed loop tick neither the hero's box nor the box
\* of a ghost in play overlaps the box of a wall.
C1_NoWallOverlap ==
  pc = "events" =>
    /\ hero_ref => ~wall_collision(<<hero.x, hero.y>>)
    /\ \A i \in 1..NumGhosts :
         GhostObj(i) \in game_objects => ~wall_collision(<<ghosts[i].x, ghosts[i].y>>)

\* C2: a hero tick in which the hero is not empowered, the game is not won
\* and the hero overlaps at least one ghost in play takes exactly one life,
\* puts the hero at its spawn position with direction Nothing, and removes
\* the hero only if no life is left.
C2_OneLifePerTick ==
  [][(HeroStep /\ ~Moved.special_ability_active /\ ~Moved.won_game /\ Overlapping # {})
       => /\ lives' = lives - 1
          /\ hero'.x = unified_size /\ hero'.y = unified_size
          /\ hero'.current_direction = "Nothing"
          /\ (HeroObj \notin game_objects' => lives' = 0)]_vars

\* C3: a hero tick at one life, not empowered, not won, with one or several
\* ghosts overlapping, ends with no life, the hero out of the game objects
\* and the hero reference cleared.
C3_LastLifeEndsGame ==
  [][(HeroStep /\ lives = 1 /\ ~Moved.special_ability_active /\ ~Moved.won_game
        /\ Overlapping # {})
       => /\ lives' = 0
          /\ HeroObj \notin game_objects'
          /\ ~hero_ref']_vars

\* C4: the hero tick that eats the only cookie still in play adds the
\* cookie's value and sets the won flag; the won flag is set whenever the
\* cookie list is empty after a hero tick; once set it stays set.
C4_LastCookieWins ==
  [][/\ (HeroStep /\ Cardinality(InPlayCookies) = 1 /\ InPlayCookies' = {})
          => (won_game' /\ score' >= score + PointCookie)
     /\ (HeroStep /\ cookies' = << >>) => won_game'
     /\ won_game => won_game']_vars

\* C5: every cookie is scored at most once in the whole session: the score
\* is the value of the entities gone from play, each counted once.
C5_CookieScoredOnce ==
  score = PointCookie * Cardinality(EatenCookies)
            + PointPowerup * Cardinality(EatenPowerups)
            + PointGhost * Cardinality(EatenGhosts)

\* C5's case: a cookie gone from play is still in the cookie list and the
\* hero's box, one step further on, still overlaps it.
C5_StillOverlapping ==
  /\ pc = "events"
  /\ \E c \in Range(cookies) :
       /\ CookieObj(c) \notin game_objects
       /\ collides_with(<<hero.x, hero.y>>, cookie_shape(c))
       /\ hero.current_direction = "Right"
       /\ collides_with(<<hero.x - 1, hero.y>>, cookie_shape(c))

\* C6: the score never decreases; every step changes it by 10 per cookie,
\* 50 per powerup and 400 per ghost that leaves play in that step, and by
\* nothing when nothing leaves play.
C6_ScoreSteps ==
  [][/\ score' >= score
     /\ score' = score
          + PointCookie * Cardinality(InPlayCookies \ InPlayCookies')
          + PointPowerup * Cardinality(EatenPowerups' \ EatenPowerups)
          + PointGhost * Cardinality(EatenGhosts' \ EatenGhosts)]_vars

\* C6's case: a cookie, a powerup and a ghost have been consumed.
C6_AllKindsScored ==
  /\ EatenCookies # {} /\ EatenPowerups # {} /\ EatenGhosts # {}
  /\ score >= PointCookie + PointPowerup + PointGhost

\* C7: when the empowered hero overlaps ghosts in play during its tick,
\* each of them leaves the game objects and adds 400 once, and the collision
\* changes neither the hero's position nor the lives.
C7_EmpoweredEatsGhost ==
  [][(HeroStep /\ Moved.special_ability_active /\ Overlapping # {})
       => /\ \A i \in Overlapping : GhostObj(i) \notin game_objects'
          /\ score' = Moved.score + PointGhost * Cardinality(Overlapping)
          /\ hero'.x = Moved.hero.x /\ hero'.y = Moved.hero.y
          /\ lives' = lives
          /\ hero_ref' /\ HeroObj \in game_objects']_vars

\* C7's case: the hero, empowered, has just eaten a ghost its box overlaps.
C7_GhostEaten ==
  /\ pc = "events"
  /\ special_ability_active
  /\ \E i \in EatenGhosts :
       collides_with(<<hero.x, hero.y>>, <<ghosts[i].x, ghosts[i].y, unified_size>>)

\* The mode-switch events of a polled batch.
ModeSwitches == Len(SelectSeq(event_queue, LAMBDA e : e = "MODE_SWITCH"))

\* C8: every mode-switch event taken from the queue flips the mode between
\* Chase and Scatter, and the phase counter goes up by one for each event
\* that finds the mode Chase and stays for each that finds it Scatter.
C8_ModeSwitchFlips ==
  [][EventsStep
       => /\ curr_mode' = IF ModeSwitches % 2 = 0 THEN curr_mode
                          ELSE IF curr_mode = "Chase" THEN "Scatter" ELSE "Chase"
          /\ current_phase' = current_phase
               + (IF curr_mode = "Chase" THEN (ModeSwitches + 1) \div 2
                  ELSE ModeSwitches \div 2)]_vars

\* The cells within k 4-directional steps through open cells from cell a
\* of the grid, cells <<x, y>>.
OpenCell(c) ==
  /\ c[1] >= 0 /\ c[1] < game_controller.size[1]
  /\ c[2] >= 0 /\ c[2] < game_controller.size[2]
  /\ game_controller.numpy_maze[c[2] + 1][c[1] + 1] = 1

RECURSIVE Within(_, _)
Within(a, k) ==
  IF k = 0 THEN {a}
  ELSE LET near == Within(a, k - 1)
       IN  near \cup {c \in UNION {Adjacent(n) : n \in near} : OpenCell(c)}

Cells == game_controller.size[1] * game_controller.size[2]
Connected(a, b) == b \in Within(a, Cells)
Distance(a, b) == CHOOSE k \in 0..Cells : b \in Within(a, k) /\ \A j \in 0..(k - 1) : b \notin Within(a, j)

\* C9: between two different open cells joined by 4-directional steps
\* through open cells the pathfinder returns a non-empty path of open cells,
\* each next to the one before, the first next to from, the last equal to
\* to, as long as the shortest distance.
C9_ShortestOpenPath ==
  (pc = "path" /\ path_call.done /\ path_call.from # path_call.to
     /\ OpenCell(path_call.from) /\ OpenCell(path_call.to)
     /\ Connected(path_call.from, path_call.to))
    => LET path == path_call.path
       IN  /\ Len(path) > 0
           /\ \A k \in 1..Len(path) : OpenCell(path[k])
           /\ path[1] \in Adjacent(path_call.from)
           /\ \A k \in 1..(Len(path) - 1) : path[k + 1] \in Adjacent(path[k])
           /\ path[Len(path)] = path_call.to
           /\ Len(path) = Distance(path_call.from, path_call.to)

\* C9's case: a path of more than two cells that had to turn.
C9_PathFound ==
  /\ pc = "path" /\ path_call.done
  /\ Len(path_call.path) > 2
  /\ path_call.from[1] # path_call.to[1]
  /\ path_call.from[2] # path_call.to[2]

\* The paths a request of ghost g may bring at this point.
Requestable(g) ==
  IF curr_mode = "Chase" /\ ~special_ability_active
  THEN request_path_to_player(g) ELSE request_new_random_path(g)

Aligned(g, t) == g.x = t[1] \/ g.y = t[2]

\* C10 as stated: a ghost tick moves the ghost one unit towards its target,
\* takes the next waypoint of the queue when the target is reached, and in
\* the tick that finds the last waypoint reached and the queue empty leaves
\* the ghost there with no target.
C10_EndsWithNoTarget ==
  [][GhostStep
       => LET g == ghosts[gi]
              n == ghosts'[gi]
          IN  (g.next_target # None /\ <<g.x, g.y>> = g.next_target
                 /\ g.location_queue = << >>)
                => (<<n.x, n.y>> = <<g.x, g.y>> /\ n.next_target = None)]_vars

\* C10, amended: the same, but the tick that exhausts the path requests a
\* new one at once: the ghost stays on the last cell with direction Nothing
\* and its target is the first cell of the new path, None only when the new
\* path is empty.
C10_WaypointsInOrder ==
  [][GhostStep
       => LET g == ghosts[gi]
              n == ghosts'[gi]
              pos == <<g.x, g.y>>
              npos == <<n.x, n.y>>
          IN  IF g.next_target = None THEN TRUE
              ELSE IF pos # g.next_target
              THEN Aligned(g, g.next_target)
                     => /\ n.next_target = g.next_target
                        /\ n.location_queue = g.location_queue
                        /\ Manhattan(npos, g.next_target) = Manhattan(pos, g.next_target) - 1
              ELSE IF g.location_queue # << >>
              THEN /\ n.next_target = Head(g.location_queue)
                   /\ n.location_queue = Tail(g.location_queue)
                   /\ Manhattan(npos, n.next_target) = Manhattan(pos, n.next_target) - 1
              ELSE /\ npos = pos
                   /\ n.current_direction = "Nothing"
                   /\ IF n.next_target = None THEN << >> \in Requestable(g) /\ n.location_queue = << >>
                      ELSE (<<n.next_target>> \o n.location_queue) \in Requestable(g)]_vars

\* C10's case: a ghost away from its spawn cell has exhausted a path in its
\* last tick and holds the first waypoint of the next one.
C10_PathExhausted ==
  \E i \in 1..NumGhosts :
     /\ pc \in {"ghost", "hero"}
     /\ GhostObj(i) \in game_objects
     /\ <<ghosts[i].x, ghosts[i].y>> # maze_to_screen(game_controller.ghost_spawns[i])
     /\ ghosts[i].current_direction = "Nothing"
     /\ ghosts[i].next_target # None

\* C11: the lives counter is always within 0..3, whatever number of ghosts
\* overlap the hero in one tick.
C11_LivesInRange == lives \in 0..3

\* The mode-switch events of the polled batch that _handle_events reaches:
\* the k-th event, when no pakupaku event before it broke the loop.
Reached(k) ==
  /\ event_queue[k] = "MODE_SWITCH"
  /\ hero_ref \/ \A j \in 1..(k - 1) : event_queue[j] # "PAKUPAKU"

\* The session when _handle_events comes to the k-th event of the batch.
Before(k) == handle_polled(SubSeq(event_queue, 1, k - 1), 1, Session)

\* C12: whenever handle_mode_switch reads the timing table, the phase
\* counter is one of its indices 0..3.
C12_PhaseIsIndex ==
  [][EventsStep
       => \A k \in 1..Len(event_queue) :
            Reached(k) => Before(k).current_phase \in 0..(Len(modes) - 1)]_vars

\* The duration in ms the table gives for mode m at phase p.
Timing(p, m) == modes[p + 1][IF m = "Scatter" THEN 1 ELSE 2] * 1000

\* C13: after a poll that handled a mode-switch event the mode-switch timer
\* runs with the duration of the mode just entered, from the table entry of
\* the phase counter's value after the event.
C13_TimerOfNewPhase ==
  [][(EventsStep /\ pc' # "crashed" /\ current_phase' < Len(modes)
        /\ \E k \in 1..Len(event_queue) : Reached(k))
       => mode_timer' = Timing(current_phase', curr_mode')]_vars

\* The cells a path request may have as its goal: the cell of the position
\* the session reports for the hero when the mode is Chase and empowerment
\* is not active, otherwise any cell of the walkable-cell list.
Goals ==
  IF curr_mode = "Chase" /\ ~special_ability_active
  THEN {screen_to_maze(get_hero_position)}
  ELSE Range(game_controller.reachable_spaces)

\* The ghost's next tick requests a path: it has no target, or it stands on
\* its last waypoint.
Requests(g) ==
  \/ g.next_target = None
  \/ <<g.x, g.y>> = g.next_target /\ g.location_queue = << >>

\* The ghost as it comes to the request (its target cleared).
AtRequest(g) == [g EXCEPT !.next_target = None]

\* The ghosts a request with one of the goals may leave.
Served(g) ==
  {set_new_path(AtRequest(g), path) :
     path \in UNION {ScreenPaths(screen_to_maze(<<g.x, g.y>>), goal) : goal \in Goals}}

\* C14: a ghost's path request goes to the hero's cell exactly when the
\* mode is Chase and empowerment is not active, and to a cell drawn from the
\* walkable-cell list otherwise: the ghost leaves the tick with a path to
\* such a goal, and every outcome the request allows is a path to such a
\* goal and conversely.
C14_GoalByMode ==
  [][(GhostStep /\ Requests(ghosts[gi]))
       => /\ [ghosts'[gi] EXCEPT !.current_direction = ghosts[gi].current_direction]
               \in Served(ghosts[gi])
          /\ Requested(AtRequest(ghosts[gi])) = Served(ghosts[gi])]_vars

\* C14's case: a ghost has just requested a path while the mode is Chase
\* and empowerment is active.
C14_EmpoweredRequest ==
  /\ pc = "hero"
  /\ curr_mode = "Chase" /\ special_ability_active
  /\ \E i \in 1..NumGhosts :
       /\ GhostObj(i) \in game_objects
       /\ ghosts[i].current_direction = "Nothing"
       /\ ghosts[i].next_target # None

\* The powerups in play that the hero's box overlaps once it has moved.
PowerupsHit ==
  {i \in DOMAIN game_controller.powerup_spaces :
     /\ PowerupObj(i) \in game_objects
     /\ collides_with(<<Hero_move(hero).x, Hero_move(hero).y>>, powerup_shape(i))}

\* What the other entities consumed in the step add to the score.
OtherGains ==
  PointCookie * Cardinality(InPlayCookies \ InPlayCookies')
    + PointGhost * Cardinality(EatenGhosts' \ EatenGhosts)

\* C15 as stated: a hero tick that overlaps a powerup in play, with
\* empowerment not active, takes that powerup out of play, adds 50, sets the
\* empowerment flag and the mode Scatter and arms the expiry timer; with
\* empowerment active the powerup stays and nothing of these changes.
C15_EveryPowerupTaken ==
  [][(HeroStep /\ PowerupsHit # {})
       => IF ~special_ability_active
          THEN /\ \A i \in PowerupsHit : PowerupObj(i) \notin game_objects'
               /\ score' = score + PointPowerup * Cardinality(PowerupsHit) + OtherGains
               /\ special_ability_active'
               /\ curr_mode' = "Scatter"
               /\ ability_timer' = 15000
          ELSE /\ \A i \in PowerupsHit : PowerupObj(i) \in game_objects'
               /\ score' = score + OtherGains
               /\ special_ability_active'
               /\ curr_mode' = curr_mode
               /\ ability_timer' = ability_timer]_vars

\* C15, amended: with empowerment not active the tick takes one of the
\* overlapped powerups out of play and adds 50 once; the other powerups it
\* overlaps stay in play, since empowerment is active when the loop comes
\* to them.  The rest as stated.
C15_PowerupPickup ==
  [][(HeroStep /\ PowerupsHit # {})
       => IF ~special_ability_active
          THEN /\ \E i \in PowerupsHit :
                    /\ PowerupObj(i) \notin game_objects'
                    /\ \A j \in PowerupsHit \ {i} : PowerupObj(j) \in game_objects'
               /\ score' = score + PointPowerup + OtherGains
               /\ special_ability_active'
               /\ curr_mode' = "Scatter"
               /\ ability_timer' = 15000
          ELSE /\ \A i \in PowerupsHit : PowerupObj(i) \in game_objects'
               /\ score' = score + OtherGains
               /\ special_ability_active'
               /\ curr_mode' = curr_mode
               /\ ability_timer' = ability_timer]_vars

\* C15's case: empowered by one powerup, the hero has ended a tick over
\* another powerup, which is still in play.
C15_SecondPowerupStays ==
  /\ pc = "events"
  /\ special_ability_active
  /\ EatenPowerups # {}
  /\ \E j \in DOMAIN game_controller.powerup_spaces :
       /\ PowerupObj(j) \in game_objects
       /\ collides_with(<<hero.x, hero.y>>, powerup_shape(j))

\* A hero tick in which a powerup grants empowerment.
Pickup == HeroStep /\ ~special_ability_active /\ special_ability_active'

\* C16: the expiry events already queued when a pickup grants empowerment,
\* all of them from an earlier arming of the timer, leave that empowerment
\* active when _handle_events comes to them.
C16_StaleExpiryIgnored ==
  [][Pickup => handle_polled(event_queue, 1, Session').special_ability_active]_vars

\* A poll whose events are expiry events only.
ExpiryOnly == /\ EventsStep
              /\ event_queue # << >>
              /\ \A k \in 1..Len(event_queue) : event_queue[k] = "ABILITY_END"

\* C17: a poll of expiry events clears the empowerment flag and leaves
\* mode, phase, mode-switch timer, score, lives, the objects in play and
\* the positions and paths of hero and ghosts as they were; the mode
\* leaves Scatter only in a poll that handles a mode-switch event.
C17_ExpiryClearsFlagOnly ==
  [][/\ ExpiryOnly
          => /\ ~special_ability_active'
             /\ curr_mode' = curr_mode
             /\ current_phase' = current_phase
             /\ mode_timer' = mode_timer
             /\ ability_timer' = ability_timer
             /\ score' = score
             /\ lives' = lives
             /\ won_game' = won_game
             /\ done_running' = done_running
             /\ hero_ref' = hero_ref
             /\ <<hero.x, hero.y>>' = <<hero.x, hero.y>>
             /\ ghosts' = ghosts
             /\ game_objects' = game_objects
             /\ cookies' = cookies
             /\ pc' # "crashed"
     /\ (curr_mode = "Scatter" /\ curr_mode' # "Scatter")
          => EventsStep /\ \E k \in 1..Len(event_queue) : Reached(k)]_vars

C17_ExpiredInScatter ==
  /\ pc \in {"ghost", "hero"}
  /\ ability_timer > 0
  /\ ~special_ability_active
  /\ curr_mode = "Scatter"
  /\ current_phase = 1

\* C18: the hero's y coordinate stays within the screen height and the
\* cell of its position is a cell of the grid.
C18_HeroInsideMaze ==
  /\ hero.y >= 0
  /\ hero.y <= height
  /\ screen_to_maze(<<hero.x, hero.y>>)[1] \in 0..(game_controller.size[1] - 1)
  /\ screen_to_maze(<<hero.x, hero.y>>)[2] \in 0..(game_controller.size[2] - 1)

\* The hero's tick starts on the screen, its buffered direction is blocked
\* by a wall and the direction of its last successful move is free.
BlockedTurn ==
  /\ HeroStep
  /\ hero.x \in 0..width
  /\ check_collision_in_direction(hero, hero.direction_buffer)[1]
  /\ hero.last_working_direction # "Nothing"
  /\ ~check_collision_in_direction(hero, hero.last_working_direction)[1]

\* C19: a hero tick whose buffered direction is blocked moves the hero one
\* unit in the direction of its last successful move, when that one is free.
C19_BlockedTurnKeepsMoving ==
  [][BlockedTurn
       => <<hero.x, hero.y>>'
            = check_collision_in_direction(hero, hero.last_working_direction)[2]]_vars

\* The hero as Hero.tick calls automatic_move, after the wraparound of x.
Wrapped == IF hero.x < 0 THEN [hero EXCEPT !.x = width]
           ELSE IF hero.x > width THEN [hero EXCEPT !.x = 0]
           ELSE hero

\* The direction Hero.tick passes to automatic_move.
Attempted ==
  IF check_collision_in_direction(Wrapped, Wrapped.direction_buffer)[1]
  THEN Wrapped.current_direction
  ELSE Wrapped.direction_buffer

AfterCall == Hero_automatic_move(Wrapped, Attempted)

\* C20: the move attempt of a hero tick, when accepted, puts the hero on
\* the one-unit desired position and makes the attempted direction its last
\* working direction; when rejected, it leaves the position alone and sets
\* the current direction to the last working direction.
C20_AttemptOutcome ==
  [][(HeroStep /\ Attempted # "Nothing")
       => IF ~check_collision_in_direction(Wrapped, Attempted)[1]
          THEN /\ <<AfterCall.x, AfterCall.y>>
                    = check_collision_in_direction(Wrapped, Attempted)[2]
               /\ <<hero.x, hero.y>>' = <<AfterCall.x, AfterCall.y>>
               /\ AfterCall.last_working_direction = Attempted
               /\ hero.last_working_direction' = Attempted
          ELSE /\ <<AfterCall.x, AfterCall.y>> = <<Wrapped.x, Wrapped.y>>
               /\ <<hero.x, hero.y>>' = <<Wrapped.x, Wrapped.y>>
               /\ AfterCall.current_direction = Wrapped.last_working_direction
               /\ hero.current_direction' = Wrapped.last_working_direction]_vars

\* C21: a hero tick that starts with the current and the buffered direction
\* both Nothing leaves the hero where it was.
C21_IdleTickStays ==
  [][(HeroStep /\ hero.current_direction = "Nothing"
               /\ hero.direction_buffer = "Nothing")
       => <<hero.x, hero.y>>' = <<hero.x, hero.y>>]_vars

\* The hero's tick after a death reset has run with no direction set.
C21_IdleAfterDeath ==
  /\ pc = "events"
  /\ lives = 2
  /\ hero.current_direction = "Nothing"
  /\ hero.direction_buffer = "Nothing"
  /\ \A i \in 1..NumGhosts :
       ~collides_with(<<hero.x, hero.y>>, <<ghosts[i].x, ghosts[i].y, unified_size>>)

\* C22: a ghost tick that requests a path and is left without a target,
\* the path returned being empty, is the one request with the empty path:
\* no error, no target, nothing queued, direction Nothing, the position
\* unchanged, and the ghost's next tick requests again.
C22_EmptyPathIdles ==
  [][(GhostStep /\ Requests(ghosts[gi]) /\ ghosts'[gi].next_target = None)
       => /\ ghosts'[gi] = [set_new_path(AtRequest(ghosts[gi]), << >>)
                              EXCEPT !.current_direction = "Nothing"]
          /\ <<ghosts'[gi].x, ghosts'[gi].y>> = <<ghosts[gi].x, ghosts[gi].y>>
          /\ ghosts'[gi].location_queue = << >>
          /\ Requests(ghosts'[gi])
          /\ pc' # "crashed"]_vars

\* A ghost idles in Chase mode once no hero exists.
C22_IdleWithoutHero ==
  /\ pc = "hero"
  /\ ~hero_ref
  /\ curr_mode = "Chase"
  /\ ~special_ability_active
  /\ \E i \in 1..NumGhosts :
       /\ GhostObj(i) \in game_objects
       /\ ghosts[i].next_target = None
       /\ ghosts[i].current_direction = "Nothing"

\* The target the ghost's next tick derives its direction from: the head of
\* the queue when the ghost stands on its target, else the target itself.
DerivedFrom(g) ==
  IF <<g.x, g.y>> = g.next_target
  THEN IF g.location_queue = << >> THEN None ELSE Head(g.location_queue)
  ELSE g.next_target

\* The both-axes-differ branch is taken by the ghost's next tick.
BothDiffer(g) ==
  /\ DerivedFrom(g) # None
  /\ g.x # DerivedFrom(g)[1]
  /\ g.y # DerivedFrom(g)[2]

OnCell(g) == maze_to_screen(screen_to_maze(<<g.x, g.y>>)) = <<g.x, g.y>>

\* C23: a ghost in play that has a target shares its x or its y with it,
\* its next tick does not take the both-axes-differ branch, and a ghost
\* about to request a path stands exactly on a grid cell.
C23_TargetOnAxis ==
  \A i \in 1..NumGhosts :
     GhostObj(i) \in game_objects
       => /\ ghosts[i].next_target # None => Aligned(ghosts[i], ghosts[i].next_target)
          /\ ~BothDiffer(ghosts[i])
          /\ DerivedFrom(ghosts[i]) = None => OnCell(ghosts[i])

\* A ghost is between two cells, on its way to a target.
C23_BetweenCells ==
  \E i \in 1..NumGhosts :
     /\ GhostObj(i) \in game_objects
     /\ ghosts[i].next_target # None
     /\ ~OnCell(ghosts[i])
     /\ ghosts[i].location_queue # << >>

\* C24: a ghost's queue changes only in that ghost's tick, and then either
\* by the removal of its head, which becomes the target when the ghost
\* stands on its target, or, the queue being empty and the target reached
\* or absent, by one path of the pathfinder, whose first cell becomes the
\* target.
C24_QueueOnlyShrinks ==
  [][\A i \in 1..NumGhosts :
       ghosts'[i].location_queue # ghosts[i].location_queue
         => LET g == ghosts[i]
                n == ghosts'[i]
            IN  /\ GhostStep
                /\ i = gi
                /\ IF g.location_queue # << >>
                   THEN /\ <<g.x, g.y>> = g.next_target
                        /\ n.next_target = Head(g.location_queue)
                        /\ n.location_queue = Tail(g.location_queue)
                   ELSE /\ Requests(g)
                        /\ (<<n.next_target>> \o n.location_queue) \in Requestable(g)]_vars

\* A ghost has taken a new path of several cells on the cell where its
\* previous path ended.
C24_NewPathQueued ==
  \E i \in 1..NumGhosts :
     /\ pc \in {"ghost", "hero"}
     /\ GhostObj(i) \in game_objects
     /\ <<ghosts[i].x, ghosts[i].y>> # maze_to_screen(game_controller.ghost_spawns[i])
     /\ ghosts[i].current_direction = "Nothing"
     /\ ghosts[i].next_target # None
     /\ ghosts[i].location_queue # << >>

\* C25: the cookie list holds exactly the cookies still in play.
C25_CookieListMatchesPlay == Range(cookies) = InPlayCookies

\* A step that stores the direction derived for a ghost that has a target.
Derived == pc = "derive" /\ pc' = "derived" /\ ghosts[1].next_target # None

C27_WonKeepsLives ==
  [][/\ won_game
          => /\ lives' = lives
             /\ hero_ref' = hero_ref
             /\ HeroObj \in game_objects => HeroObj \in game_objects'
             /\ HeroStep => hero' = Hero_move(hero)
     /\ (HeroStep /\ InPlayCookies # {} /\ InPlayCookies' = {}
           /\ Overlapping # {} /\ ~Moved.special_ability_active)
          => won_game' /\ lives' = lives]_vars

\* The polled batch without the events that only animate the hero's mouth.
Acting == SelectSeq(event_queue, LAMBDA event : event # "PAKUPAKU")

\* C28: a poll acts on every quit, mode-switch and expiry event of its
\* batch: the session is afterwards as these events, handled in order,
\* leave it.
C28_WholeBatchHandled ==
  [][EventsStep
       => LET st == handle_polled(Acting, 1, Session)
          IN  /\ done_running' = st.done_running
              /\ special_ability_active' = st.special_ability_active
              /\ curr_mode' = st.curr_mode
              /\ current_phase' = st.current_phase
              /\ mode_timer' = st.mode_timer]_vars

====
